---- MODULE Spec2Model ----
\* A model of src/population.py (class Population) and of the Artifact fields it
\* reads (src/artifacts.py): the population store, the selection functions and
\* the generation ledger written by Population.save.
EXTENDS Integers, Sequences, FiniteSets, TLC

\* artifacts       Population.artifacts: the list of stored Artifact objects
\* id_to_artifact  Population.id_to_artifact: the dict from Artifact.id to object
\* fitness         Artifact.fitness of every object (None until evaluated)
\* files           the ledger files on disk: path -> the lines written so far
\* call            the last call made on the Population, with its arguments
\* ret             what that call returned or raised
VARIABLES artifacts, id_to_artifact, fitness, files, call, ret

vars == <<artifacts, id_to_artifact, fitness, files, call, ret>>

\* ---------------------------------------------------------------- bounds
\* Artifact objects are 1..NObj; two objects may carry the same id.
NObj == 3
\* Largest length of Population.artifacts the model lets the list grow to.
MaxSize == 3
\* Largest batch handed to add_all.
MaxBatch == 2
\* Largest count handed to get_random / get_best (the smallest is -1).
MaxCount == 3
\* Fitness values are 0..MaxFit, or unset.
MaxFit == 1
\* Largest number of Population.save calls in a run.
MaxSaves == 2
\* Largest population the checkpointing runs build.
LedgerSize == 2
\* Largest number of rows of an embeddings tensor, largest k_neighbors.
MaxRows == 3
MaxK == 3

Objs == 1 .. NObj
Counts == -1 .. MaxCount

\* Artifact.id of an object: objects 1 and 2 share id 1, objects 3 and 4 id 2, ...
\* (Artifact.__init__ takes any caller-supplied id, so two objects can agree).
IdOf(o) == (o + 1) \div 2
Ids == {IdOf(o) : o \in Objs}

\* An Optional value: <<>> is None, <<v>> is v.
NoneVal == <<>>
Some(v) == <<v>>
FitVals == 0 .. MaxFit
Fitnesses == {NoneVal} \cup {Some(f) : f \in FitVals}

\* ------------------------------------------------------- sequence helpers
Range(s) == {s[i] : i \in DOMAIN s}
Min(a, b) == IF a <= b THEN a ELSE b
Max(a, b) == IF a >= b THEN a ELSE b
Front(s) == SubSeq(s, 1, Len(s) - 1)
Last(s) == s[Len(s)]
\* The sequence s with every element computed (a tensor held in memory).
Tensor(s) == SubSeq(s, 1, Len(s))

\* Python's s[:count]: the first count elements, or all but the last -count.
Slice(s, count) ==
    IF count >= 0 THEN SubSeq(s, 1, Min(count, Len(s)))
    ELSE SubSeq(s, 1, Max(Len(s) + count, 0))

\* list.remove(x): s without the first element equal to x (x must occur).
ListRemove(s, x) ==
    LET i == CHOOSE j \in DOMAIN s : s[j] = x /\ \A h \in 1 .. j - 1 : s[h] # x
    IN  SubSeq(s, 1, i - 1) \o SubSeq(s, i + 1, Len(s))

\* ---------------------------------------------------------- return values
\* What a call gives back: kind is "ok" or the exception raised, val the
\* returned list (<<>> for None), scores the optional second component.
Ok(val) == [kind |-> "ok", val |-> val, scores |-> NoneVal]
OkScores(val, sc) == [kind |-> "ok", val |-> val, scores |-> Some(sc)]
Raise(exc) == [kind |-> exc, val |-> <<>>, scores |-> NoneVal]

\* ------------------------------------------------------- Population store
\* dict[key] = value
DictSet(d, key, value) ==
    [x \in DOMAIN d \cup {key} |-> IF x = key THEN value ELSE d[x]]

\* del dict[key]
DictDel(d, key) == [x \in DOMAIN d \ {key} |-> d[x]]

\* The two statements of Population.add on a store st.
StoreAdd(st, o) ==
    [artifacts |-> Append(st.artifacts, o),
     id_to_artifact |-> DictSet(st.id_to_artifact, IdOf(o), o)]

\* The loop of Population.add_all.
RECURSIVE StoreAddAll(_, _)
StoreAddAll(st, batch) ==
    IF batch = <<>> THEN st
    ELSE StoreAddAll(StoreAdd(st, Head(batch)), Tail(batch))

\* Population.remove: the store afterwards and what the call raised.
\* list.remove compares with ==, which is identity for Artifact; it raises
\* ValueError before the index entry is deleted when the object is not listed.
StoreRemove(st, o) ==
    IF IdOf(o) \in DOMAIN st.id_to_artifact
    THEN IF o \in Range(st.artifacts)
         THEN [artifacts |-> ListRemove(st.artifacts, o),
               id_to_artifact |-> DictDel(st.id_to_artifact, IdOf(o)),
               raised |-> "ok"]
         ELSE [artifacts |-> st.artifacts,
               id_to_artifact |-> st.id_to_artifact,
               raised |-> "ValueError"]
    ELSE [artifacts |-> st.artifacts,
          id_to_artifact |-> st.id_to_artifact,
          raised |-> "ok"]

Store == [artifacts |-> artifacts, id_to_artifact |-> id_to_artifact]

\* Population.get
GetResult(idx, artifact_id) ==
    IF artifact_id \in DOMAIN idx THEN Some(idx[artifact_id]) ELSE NoneVal

Batches == UNION {[1 .. n -> Objs] : n \in 0 .. MaxBatch}

\* Population.__init__; every Artifact starts with fitness None.
Init ==
    /\ artifacts = <<>>
    /\ id_to_artifact = <<>>
    /\ fitness = [o \in Objs |-> NoneVal]
    /\ files = <<>>
    /\ call = [op |-> "init"]
    /\ ret = Ok(<<>>)

Add(o) ==
    /\ Len(artifacts) < MaxSize
    /\ artifacts' = StoreAdd(Store, o).artifacts
    /\ id_to_artifact' = StoreAdd(Store, o).id_to_artifact
    /\ call' = [op |-> "add", artifact |-> o]
    /\ ret' = Ok(<<>>)
    /\ UNCHANGED <<fitness, files>>

AddAll(batch) ==
    /\ Len(artifacts) + Len(batch) <= MaxSize
    /\ artifacts' = StoreAddAll(Store, batch).artifacts
    /\ id_to_artifact' = StoreAddAll(Store, batch).id_to_artifact
    /\ call' = [op |-> "add_all", artifacts |-> batch]
    /\ ret' = Ok(<<>>)
    /\ UNCHANGED <<fitness, files>>

Remove(o) ==
    /\ artifacts' = StoreRemove(Store, o).artifacts
    /\ id_to_artifact' = StoreRemove(Store, o).id_to_artifact
    /\ call' = [op |-> "remove", artifact |-> o]
    /\ ret' = IF StoreRemove(Store, o).raised = "ok" THEN Ok(<<>>)
              ELSE Raise(StoreRemove(Store, o).raised)
    /\ UNCHANGED <<fitness, files>>

Get(artifact_id) ==
    /\ call' = [op |-> "get", artifact_id |-> artifact_id]
    /\ ret' = Ok(GetResult(id_to_artifact, artifact_id))
    /\ UNCHANGED <<artifacts, id_to_artifact, fitness, files>>

GetAll ==
    /\ call' = [op |-> "get_all"]
    /\ ret' = Ok(artifacts)
    /\ UNCHANGED <<artifacts, id_to_artifact, fitness, files>>

\* np.random.choice(n, size=count, replace=False): any sequence of count
\* pairwise different positions; a negative size raises ValueError.
Choices(n, count) ==
    {p \in [1 .. count -> 1 .. n] : \A i, j \in 1 .. count : i # j => p[i] # p[j]}

GetRandom(count) ==
    /\ call' = [op |-> "get_random", count |-> count]
    /\ IF count >= Len(artifacts)
       THEN ret' = Ok(artifacts)
       ELSE IF count < 0
            THEN ret' = Raise("ValueError")
            ELSE \E indices \in Choices(Len(artifacts), count) :
                    ret' = Ok([i \in 1 .. count |-> artifacts[indices[i]]])
    /\ UNCHANGED <<artifacts, id_to_artifact, fitness, files>>

Next ==
    \/ \E o \in Objs : Add(o)
    \/ \E batch \in Batches : AddAll(batch)
    \/ \E o \in Objs : Remove(o)
    \/ \E i \in Ids : Get(i)
    \/ GetAll
    \/ \E count \in Counts : GetRandom(count)

Spec == Init /\ [][Next]_vars

\* ------------------------------------------------------------- get_best
\* float("-inf"): below every fitness value of the model (FitVals >= 0).
NegInf == -1

\* The sort key of get_best: a.fitness if a.fitness is not None else -inf.
SortKey(fit, a) == IF fit[a] = NoneVal THEN NegInf ELSE fit[a][1]

\* x put before the records of equal key: what an unstable descending sort
\* (sort ascending, then reverse) does with ties.
InsertBeforeTies(sorted, x, fit) ==
    LET p == Cardinality({i \in DOMAIN sorted :
                             SortKey(fit, sorted[i]) > SortKey(fit, x)})
    IN  SubSeq(sorted, 1, p) \o <<x>> \o SubSeq(sorted, p + 1, Len(sorted))

\* One step of sorted(..., reverse=True): x, the next record in list order,
\* goes after every record whose key is greater than or equal to its own
\* (Python's sort is stable, also under reverse=True).
InsertSorted(sorted, x, fit) ==
    LET p == Cardinality({i \in DOMAIN sorted :
                             SortKey(fit, sorted[i]) >= SortKey(fit, x)})
    IN  SubSeq(sorted, 1, p) \o <<x>> \o SubSeq(sorted, p + 1, Len(sorted))

\* sorted(self.artifacts, key=..., reverse=True)
RECURSIVE SortedByFitness(_, _)
SortedByFitness(s, fit) ==
    IF s = <<>> THEN <<>>
    ELSE InsertSorted(SortedByFitness(Front(s), fit), Last(s), fit)

GetBest(count) ==
    /\ call' = [op |-> "get_best", count |-> count]
    /\ ret' = Ok(Slice(SortedByFitness(artifacts, fitness), count))
    /\ UNCHANGED <<artifacts, id_to_artifact, fitness, files>>

\* The external evaluator assigns Artifact.fitness of a stored record.
SetFitness(o, f) ==
    /\ o \in Range(artifacts)
    /\ fitness[o] # f
    /\ fitness' = [fitness EXCEPT ![o] = f]
    /\ call' = [op |-> "set_fitness"]
    /\ ret' = Ok(<<>>)
    /\ UNCHANGED <<artifacts, id_to_artifact, files>>

\* A run adds records and assigns fitness in any order and ends with one
\* get_best; get_best changes nothing, so a run going on after it reaches no
\* store that a run without it does not.
NextBest ==
    \/ call.op # "get_best" /\ \E o \in Objs : Add(o)
    \/ call.op # "get_best" /\ \E o \in Objs, f \in Fitnesses : SetFitness(o, f)
    \/ call.op # "get_best" /\ \E count \in Counts : GetBest(count)

SpecBest == Init /\ [][NextBest]_vars

\* ----------------------------------------------------------------- save
Dirs == {"run_a", "run_b"}
Generations == {0, 1}
\* datetime.now().isoformat(): the wall clock, any of two readings.
Times == {"t1", "t2"}

\* os.path.join(output_dir, "population_data.jsonl")
PopulationPath(output_dir) == <<output_dir, "population_data.jsonl">>

\* The entry of one save call (the JSON object of one line).
PopulationData(arts, generation, now) ==
    [generation |-> generation,
     timestamp |-> now,
     genome_ids |-> [i \in 1 .. Len(arts) |-> IdOf(arts[i])],
     count |-> Len(arts)]

\* open(path, "w") instead of "a": the file holds the new line alone.
OpenTruncateWrite(fs, path, line) == DictSet(fs, path, <<line>>)

\* with open(path, "a") as f: f.write(line): the file is created when
\* missing (os.makedirs(exist_ok=True) has made its directory), else extended.
OpenAppendWrite(fs, path, line) ==
    IF path \in DOMAIN fs
    THEN [fs EXCEPT ![path] = Append(@, line)]
    ELSE DictSet(fs, path, <<line>>)

RECURSIVE TotalLines(_, _)
TotalLines(fs, paths) ==
    IF paths = {} THEN 0
    ELSE LET p == CHOOSE q \in paths : TRUE
         IN  Len(fs[p]) + TotalLines(fs, paths \ {p})

Save(output_dir, generation, now) ==
    /\ TotalLines(files, DOMAIN files) < MaxSaves
    /\ files' = OpenAppendWrite(files, PopulationPath(output_dir),
                                PopulationData(artifacts, generation, now))
    /\ call' = [op |-> "save", output_dir |-> output_dir, generation |-> generation]
    /\ ret' = Ok(<<PopulationPath(output_dir)>>)
    /\ UNCHANGED <<artifacts, id_to_artifact, fitness>>

\* The loop that checkpoints keeps populations of up to LedgerSize members.
NextLedger ==
    \/ \E o \in Objs : Len(artifacts) < LedgerSize /\ Add(o)
    \/ \E d \in Dirs, g \in Generations, t \in Times : Save(d, g, t)

SpecLedger == Init /\ [][NextLedger]_vars

\* ---------------------------------------------------- select_by_novelty
\* Numbers are fixed point, Scale units to 1.0, standing for the float32
\* values that embeddings.to(torch.float32) fixes the arithmetic to.
Scale == 100
\* torch.finfo(distances.dtype).max: the largest number of the numeric type.
FloatMax == 2147483647

\* The embedding rows calls are made with: [1,0], [0.99,0.01], [0,1], the
\* zero vector and [-1,0]. A tensor is rectangular: every row has two entries.
Rows == {<<100, 0>>, <<99, 1>>, <<0, 100>>, <<0, 0>>, <<-100, 0>>}
Embeddings == UNION {[1 .. m -> Rows] : m \in 0 .. MaxRows}
Neighbors == 1 .. MaxK

RECURSIVE ISqrtBetween(_, _, _)
ISqrtBetween(n, lo, hi) ==
    IF lo = hi THEN lo
    ELSE LET mid == (lo + hi + 1) \div 2
         IN  IF mid * mid <= n THEN ISqrtBetween(n, mid, hi)
             ELSE ISqrtBetween(n, lo, mid - 1)

\* The square root, rounded down.
ISqrt(n) == ISqrtBetween(n, 0, 46340)

Dot(a, b) == a[1] * b[1] + a[2] * b[2]

\* One row of torch.nn.functional.normalize(embeddings, dim=1):
\* v / max(||v||, eps); the zero row stays the zero row.
Normalize(row) ==
    LET norm == Max(ISqrt(Dot(row, row) * Scale * Scale), 1)
    IN  <<(row[1] * Scale * Scale) \div norm, (row[2] * Scale * Scale) \div norm>>

\* distances = 1 - torch.mm(norm_emb, norm_emb.t())
Distances(emb) ==
    LET norm_emb == Tensor([i \in DOMAIN emb |-> Normalize(emb[i])])
    IN  Tensor([i \in DOMAIN emb |-> Tensor([j \in DOMAIN emb |->
            Scale - (Dot(norm_emb[i], norm_emb[j]) \div Scale)])])

\* max_val = torch.finfo(distances.dtype).max / 2
MaxVal == FloatMax \div 2

\* The diagonal left as computed: what the scoring reads when the loop that
\* excludes the self-distance is missing.
LeaveDiagonal(dist) == dist

\* for i in range(distances.shape[0]): distances[i, i] = max_val
SetDiagonal(dist) ==
    Tensor([i \in DOMAIN dist |-> Tensor([j \in DOMAIN dist |->
        IF i = j THEN MaxVal ELSE dist[i][j]])])

InsertAsc(sorted, x) ==
    LET p == Cardinality({i \in DOMAIN sorted : sorted[i] <= x})
    IN  SubSeq(sorted, 1, p) \o <<x>> \o SubSeq(sorted, p + 1, Len(sorted))

\* One row of torch.sort(distances, dim=1)
RECURSIVE SortAsc(_)
SortAsc(s) == IF s = <<>> THEN <<>> ELSE InsertAsc(SortAsc(Front(s)), Last(s))

RECURSIVE SumSeq(_)
SumSeq(s) == IF s = <<>> THEN 0 ELSE Head(s) + SumSeq(Tail(s))

\* k_nearest.mean(dim=1) of one row (the row is not empty).
Mean(s) == SumSeq(s) \div Len(s)

\* novelty_scores: the mean of sorted_dist[:, :k_neighbors], row by row.
NoveltyScores(emb, k_neighbors) ==
    LET distances == SetDiagonal(Distances(emb))
        sorted_dist == Tensor([i \in DOMAIN emb |-> SortAsc(distances[i])])
    IN  Tensor([i \in DOMAIN emb |-> Mean(Slice(sorted_dist[i], k_neighbors))])

\* torch.argsort(novelty_scores, descending=True).tolist(): the 0-based
\* positions by score descending; the sort is not stable, equal scores come
\* in any order.
ArgsortDesc(scores) ==
    {p \in [DOMAIN scores -> 0 .. Len(scores) - 1] :
        /\ \A i, j \in DOMAIN scores : i # j => p[i] # p[j]
        /\ \A i, j \in DOMAIN scores : i < j => scores[p[i] + 1] >= scores[p[j] + 1]}

\* The guard with < for <=.
FewerThanK(n, k_neighbors) == n < k_neighbors

\* if len(self.artifacts) <= k_neighbors
SmallPopulation(n, k_neighbors) == n <= k_neighbors

\* list(range(n)) and torch.zeros(n)
IndexRange(n) == [i \in 1 .. n |-> i - 1]
Zeros(n) == [i \in 1 .. n |-> 0]

SelectByNovelty(embeddings, k_neighbors, return_distances) ==
    /\ call' = [op |-> "select_by_novelty", embeddings |-> embeddings,
                k_neighbors |-> k_neighbors, return_distances |-> return_distances]
    /\ IF SmallPopulation(Len(artifacts), k_neighbors)
       THEN ret' = IF return_distances
                   THEN OkScores(IndexRange(Len(artifacts)), Zeros(Len(artifacts)))
                   ELSE Ok(IndexRange(Len(artifacts)))
       ELSE LET novelty_scores == NoveltyScores(embeddings, k_neighbors)
            IN  \E sorted_indices \in ArgsortDesc(novelty_scores) :
                   ret' = IF return_distances
                          THEN OkScores(sorted_indices, novelty_scores)
                          ELSE Ok(sorted_indices)
    /\ UNCHANGED <<artifacts, id_to_artifact, fitness, files>>

\* select_by_novelty reads the population's length alone and changes
\* nothing: the runs add artifact 1, then 2, ..., and select once between adds.
NextNovelty ==
    \/ \E o \in Objs : o = Len(artifacts) + 1 /\ Add(o)
    \/ /\ call.op # "select_by_novelty"
       /\ \E e \in Embeddings, k \in Neighbors, rd \in BOOLEAN :
             SelectByNovelty(e, k, rd)

SpecNovelty == Init /\ [][NextNovelty]_vars

\* ------------------------------------------------- claims about the store
Unchanged == artifacts' = artifacts /\ id_to_artifact' = id_to_artifact

\* C1: add of a record whose id is already in the store fails with
\* DuplicateIdError and leaves the ordered collection and the index as they
\* were; an add of a new id makes the collection one longer.
C1_DuplicateAddRejected ==
    [][call'.op = "add" =>
         IF IdOf(call'.artifact) \in DOMAIN id_to_artifact
         THEN ret'.kind = "DuplicateIdError" /\ Unchanged
         ELSE ret'.kind = "ok" /\ Len(artifacts') = Len(artifacts) + 1]_vars

\* C2: the ordered collection and the index are consistent: every listed
\* record is the index entry of its id, every index entry is listed exactly
\* once, and no two listed records share an id.
C2_StoreConsistent ==
    /\ \A i \in DOMAIN artifacts :
          /\ IdOf(artifacts[i]) \in DOMAIN id_to_artifact
          /\ id_to_artifact[IdOf(artifacts[i])] = artifacts[i]
    /\ \A k \in DOMAIN id_to_artifact :
          Cardinality({i \in DOMAIN artifacts : artifacts[i] = id_to_artifact[k]}) = 1
    /\ \A i, j \in DOMAIN artifacts :
          i # j => IdOf(artifacts[i]) # IdOf(artifacts[j])

BatchDuplicates(batch) ==
    \/ \E i \in DOMAIN batch : IdOf(batch[i]) \in DOMAIN id_to_artifact
    \/ \E i, j \in DOMAIN batch : i # j /\ IdOf(batch[i]) = IdOf(batch[j])

\* C3: add_all is atomic: a batch that would duplicate an id fails and
\* inserts nothing; any other batch is appended in the given order.
C3_AddAllAtomic ==
    [][call'.op = "add_all" =>
         IF BatchDuplicates(call'.artifacts)
         THEN ret'.kind # "ok" /\ Unchanged
         ELSE ret'.kind = "ok" /\ artifacts' = artifacts \o call'.artifacts]_vars

\* C4: remove of a record that is not in the store is a no-op raising no
\* error; remove is idempotent; after it returns, the record's id is neither
\* in the index nor carried by any listed record.
C4_RemoveIdempotent ==
    [][call'.op = "remove" =>
         LET o == call'.artifact
             after == [artifacts |-> artifacts', id_to_artifact |-> id_to_artifact']
         IN  /\ o \notin Range(artifacts) => ret'.kind = "ok" /\ Unchanged
             /\ StoreRemove(after, o).artifacts = artifacts'
             /\ StoreRemove(after, o).id_to_artifact = id_to_artifact'
             /\ ret'.kind = "ok" =>
                   /\ IdOf(o) \notin DOMAIN id_to_artifact'
                   /\ \A i \in DOMAIN artifacts' : IdOf(artifacts'[i]) # IdOf(o)]_vars

\* C9: get_random(k), k >= 0, returns exactly min(k, n) records, all members
\* of the store and no record twice; for k >= n every member exactly once;
\* the store is not modified.
C9_RandomDistinctMembers ==
    [][call'.op = "get_random" /\ call'.count >= 0 =>
         LET k == call'.count
             n == Len(artifacts)
             out == ret'.val
         IN  /\ ret'.kind = "ok"
             /\ Len(out) = Min(k, n)
             /\ \A i \in DOMAIN out : out[i] \in Range(artifacts)
             /\ \A i, j \in DOMAIN out : i # j => out[i] # out[j]
             /\ k >= n => \A o \in Range(artifacts) :
                              Cardinality({i \in DOMAIN out : out[i] = o}) = 1
             /\ Unchanged]_vars

\* ------------------------------------------- claims about get_best, save
\* a ranks at least as high as b: an unset fitness ranks below every value.
FitGE(a, b) == b = NoneVal \/ (a # NoneVal /\ a[1] >= b[1])

\* The scenario of five records with fitness 0.2, None, 0.9, 0.5, 0.1 (in
\* tenths): get_best(2) is the third record, then the fourth.
ScenarioBest ==
    Slice(SortedByFitness(<<1, 2, 3, 4, 5>>,
                          <<Some(2), NoneVal, Some(9), Some(5), Some(1)>>), 2)
        = <<3, 4>>

\* C5: get_best(k), k >= 0, returns exactly min(k, n) records, taken from
\* pairwise different positions of the store, by fitness descending with an
\* unset fitness last, records of equal fitness in insertion order, no
\* record left out ranking above a returned one; the store is not modified.
C5_BestK ==
    [][call'.op = "get_best" /\ call'.count >= 0 =>
         LET n == Len(artifacts)
             out == ret'.val
             f(i) == fitness[artifacts[i]]
         IN  /\ ret'.kind = "ok"
             /\ Len(out) = Min(call'.count, n)
             /\ \E p \in Choices(n, Len(out)) :
                   /\ \A i \in DOMAIN out : out[i] = artifacts[p[i]]
                   /\ \A i, j \in DOMAIN out :
                         i < j => /\ FitGE(f(p[i]), f(p[j]))
                                  /\ FitGE(f(p[j]), f(p[i])) => p[i] < p[j]
                   /\ \A q \in (1 .. n) \ Range(p) :
                         \A i \in DOMAIN out : FitGE(f(p[i]), f(q))
             /\ Unchanged /\ fitness' = fitness
             /\ ScenarioBest]_vars

\* A get_best(2) over three records, two with the same set fitness and one
\* unset, the unset one stored first.
C5_Witness ==
    /\ call.op = "get_best" /\ call.count = 2
    /\ Len(artifacts) = 3
    /\ fitness[artifacts[1]] = NoneVal
    /\ artifacts[2] # artifacts[3]
    /\ fitness[artifacts[2]] = fitness[artifacts[3]]
    /\ fitness[artifacts[2]] # NoneVal
    /\ ret.val = <<artifacts[2], artifacts[3]>>

\* C8: every save appends exactly one entry at the end of its ledger file,
\* carrying the generation passed, the store's ids in insertion order and
\* count = their number; the entries already written stay as they are, no
\* other call writes, and a save leaves the store as it was.
C8_LedgerAppendOnly ==
    [][IF call'.op = "save"
       THEN LET path == PopulationPath(call'.output_dir)
                old == IF path \in DOMAIN files THEN files[path] ELSE <<>>
                new == files'[path]
            IN  /\ DOMAIN files' = DOMAIN files \cup {path}
                /\ Len(new) = Len(old) + 1
                /\ SubSeq(new, 1, Len(old)) = old
                /\ Last(new).generation = call'.generation
                /\ Last(new).genome_ids
                      = [i \in 1 .. Len(artifacts) |-> IdOf(artifacts[i])]
                /\ Last(new).count = Len(Last(new).genome_ids)
                /\ \A q \in DOMAIN files : q # path => files'[q] = files[q]
                /\ Unchanged
       ELSE files' = files]_vars

\* Two saves into the same ledger, the second of a grown store holding two
\* different ids and under another generation number.
C8_Witness ==
    /\ call.op = "save"
    /\ \E path \in DOMAIN files :
          /\ Len(files[path]) = 2
          /\ files[path][1].count < files[path][2].count
          /\ files[path][1].generation # files[path][2].generation
          /\ Cardinality(Range(files[path][2].genome_ids)) = 2

\* -------------------------------------------- claims about select_by_novelty
RECURSIVE SumOver(_, _, _)
SumOver(dist, i, S) ==
    IF S = {} THEN 0
    ELSE LET j == CHOOSE x \in S : TRUE
         IN  dist[i][j] + SumOver(dist, i, S \ {j})

\* The mean of the k smallest cosine distances from row i to the other rows:
\* the least mean over the sets of k other rows.
OthersScore(dist, k, i) ==
    LET others == DOMAIN dist \ {i}
        sums == {SumOver(dist, i, S) :
                    S \in {T \in SUBSET others : Cardinality(T) = k}}
    IN  (CHOOSE x \in sums : \A y \in sums : x <= y) \div k

NearPairAndFar == <<(<<100, 0>>), (<<99, 1>>), (<<0, 100>>)>>

\* C6: with one embedding row per record and 1 <= k_neighbors < n,
\* select_by_novelty returns a permutation of 0..n-1 by score descending, the
\* score of a record being the mean of the k_neighbors smallest distances to
\* the other records (its distance to itself is not among them); for rows
\* [1,0], [0.99,0.01], [0,1] and k_neighbors = 1, index 2 comes first.
C6_NoveltyOrder ==
    (/\ call.op = "select_by_novelty"
     /\ Len(call.embeddings) = Len(artifacts)
     /\ call.k_neighbors < Len(artifacts))
    =>
      LET emb == call.embeddings
          k == call.k_neighbors
          n == Len(artifacts)
          out == ret.val
          dist == Distances(emb)
          score == Tensor([i \in 1 .. n |-> OthersScore(dist, k, i)])
      IN  /\ ret.kind = "ok"
          /\ Len(out) = n
          /\ Range(out) = 0 .. n - 1
          /\ \A a, b \in 1 .. n : a < b => score[out[a] + 1] >= score[out[b] + 1]
          /\ ret.scores = IF call.return_distances THEN Some(score) ELSE NoneVal
          /\ emb = NearPairAndFar /\ k = 1 => out[1] = 2

\* The three-row example with k_neighbors = 1, scores requested, and a call
\* with two neighbours over three rows that do not score alike.
C6_Witness ==
    /\ call.op = "select_by_novelty"
    /\ Len(artifacts) = 3
    /\ call.embeddings = NearPairAndFar
    /\ call.k_neighbors = 1
    /\ call.return_distances
    /\ ret.val[1] = 2
    /\ ret.scores[1][3] > ret.scores[1][1]

\* C7: with n <= k_neighbors select_by_novelty raises nothing and returns
\* 0, 1, ..., n-1, and with return_distances a vector of n zeros as well.
C7_SmallPopulationFallback ==
    call.op = "select_by_novelty" /\ Len(artifacts) <= call.k_neighbors =>
        /\ ret.kind = "ok"
        /\ ret.val = [i \in 1 .. Len(artifacts) |-> i - 1]
        /\ ret.scores = IF call.return_distances
                        THEN Some([i \in 1 .. Len(artifacts) |-> 0])
                        ELSE NoneVal

\* A population of exactly k_neighbors = 2 records, one row each, scores
\* requested.
C7_Witness ==
    /\ call.op = "select_by_novelty"
    /\ Len(artifacts) = 2
    /\ call.k_neighbors = 2
    /\ Len(call.embeddings) = 2
    /\ call.return_distances
    /\ ret.val = <<0, 1>>
    /\ ret.scores = <<(<<0, 0>>)>>

\* C10: embeddings whose row count does not match the population make
\* select_by_novelty fail with ShapeError, whatever the population size.
C10_ShapeErrorOnMalformed ==
    call.op = "select_by_novelty" /\ Len(call.embeddings) # Len(artifacts) =>
        ret.kind = "ShapeError"

====
